---- MODULE Spec2Model ----
(***************************************************************************)
(* Model of the Bowtie harness bowtie_jsu_python.py: the Runner session    *)
(* (current dialect, input line counter), the request loop Runner.run,     *)
(* the dispatcher Runner.process and the four command handlers, with the   *)
(* schema cache directory as a map from file names to documents.           *)
(*                                                                         *)
(* JSON values are tagged records: the tag is what isinstance() tests.     *)
(* A Python call has one of three outcomes: it returns a value, it raises  *)
(* an exception (an Exception subclass), or it leaves through sys.exit.    *)
(***************************************************************************)
EXTENDS Integers, Sequences, FiniteSets, TLC

VARIABLES
    version,    \* Runner.version: current dialect, None until set
    line,       \* Runner.line: count of input lines
    pc,         \* position in the loop of Runner.run: "read" or "write"
    status,     \* "running", or how the process ended
    exitcode,   \* exit status of the process, None while it runs
    req,        \* the line being handled (local req of Runner.run once parsed)
    res,        \* local res of Runner.run: the response to write
    stdout,     \* lines written to sys.stdout, in order: each line is
                \* identified by the number of the input line it answers
                \* (its content is res at the time of the write)
    stderr,     \* messages written to sys.stderr, in order
    cache,      \* files of the CACHE directory: file name -> content
    nread,      \* number of lines the loop has taken from sys.stdin
    call,       \* arguments of the engine call made while handling req
    checker,    \* behaviour of the checker the engine returned for req
    files,      \* local files of cmd_run: names registered while handling req
    fault,      \* the file operation that fails while handling req
    lastdialect,\* the dialect of the most recent dialect command answered
    lastset,    \* what that dialect command stored, None before any
    prev        \* the line that is sent twice in a row, with its environment
                \* and what its first handling gave (SpecRepeat only)

vars == <<version, line, pc, status, exitcode, req, res, stdout, stderr, cache,
          nread, call, checker, files, fault, lastdialect, lastset, prev>>

-----------------------------------------------------------------------------
(* Bounds of the model *)

MaxLines == 3       \* input lines read in one behaviour
MaxTests == 2       \* test instances of a case
MaxRegistry == 2    \* entries of a case's registry
NumInstances == 2   \* distinct instance values

-----------------------------------------------------------------------------
(* JSON values *)

Null == [type |-> "null"]
Str(s) == [type |-> "string", val |-> s]
Num(n) == [type |-> "number", val |-> n]
Arr(s) == [type |-> "array", val |-> s]
Obj(r) == [type |-> "object", val |-> r]
\* a line of text that is not JSON at all
NotJson == [type |-> "text"]

\* Python None, for the session dialect (an int otherwise)
None == -1

isdict(j) == j.type = "object"
islist(j) == j.type = "array"
isstr(j) == j.type = "string"
has(o, k) == k \in DOMAIN o.val
\* dict.get(k) with default d
get(o, k, d) == IF has(o, k) THEN o.val[k] ELSE d

-----------------------------------------------------------------------------
(* Outcomes of a call *)

Return(r) == [kind |-> "return", res |-> r]
Raise(e) == [kind |-> "raise", exc |-> e]
Exit(c) == [kind |-> "exit", code |-> c]

-----------------------------------------------------------------------------
(* Module-level tables *)

D2020 == "https://json-schema.org/draft/2020-12/schema"
D2019 == "https://json-schema.org/draft/2019-09/schema"
D7 == "http://json-schema.org/draft-07/schema#"
D6 == "http://json-schema.org/draft-06/schema#"
D4 == "http://json-schema.org/draft-04/schema#"
D3 == "http://json-schema.org/draft-03/schema#"

VERSIONS ==
    (D2020 :> 9) @@ (D2019 :> 8) @@ (D7 :> 7) @@
    (D6 :> 6) @@ (D4 :> 4) @@ (D3 :> 3)

\* sorted(VERSIONS.keys()): "http:" sorts before "https:", then by draft
SortedDialects == <<D3, D4, D6, D7, D2019, D2020>>

\* URLs of the specification registry, in its iteration order
SpecURLs == <<"https://json-schema.org/draft/2020-12/schema",
              "http://json-schema.org/draft-07/schema">>

\* a URL that is in no specification registry
ExtraURL == "http://localhost:1234/extra.json"

\* SPECS: url -> contents of the specification with that url
SPECS == [i \in 1..Len(SpecURLs) |->
             [url |-> SpecURLs[i], schema |-> Obj([id |-> Str(SpecURLs[i])])]]

CACHE == "./schema-cache-by-hashed-urls"

\* hashlib.sha3_256(url.encode()).hexdigest()[:16]: a function of the url
\* only, taken to be collision-free on the urls of the model
uh(url) == <<"sha3_256", url>>

\* f"{CACHE}/{uh}.json"
fn(url) == <<CACHE, uh(url), ".json">>

-----------------------------------------------------------------------------
(* The environment of one request: what the compiling engine and the file  *)
(* system do while the request is handled.                                 *)
(*   compile: "ok" or "raise", the outcome of json_schema_to_python_checker*)
(*   verdict: instance -> "true", "false" or "raise", the returned checker *)
(*   fault:   at most one file operation of the request that fails:        *)
(*            op "open" or "dump" on the at-th registered file, or         *)
(*            op "unlink" on the at-th file of the cleanup, or op "none"   *)
(***************************************************************************)

Instances == {Num(i) : i \in 1..NumInstances}

NoFault == [op |-> "none", at |-> 0]
Fault(o, k) == [op |-> o, at |-> k]

\* content of a file that was opened for writing and not fully written
Truncated == [type |-> "truncated"]

\* no engine call made, no checker obtained
NoCall == [made |-> FALSE]
NoChecker == << >>

-----------------------------------------------------------------------------
(* Runner.cmd_start *)

StartResponse ==
    [version |-> 1,
     implementation |->
        [language |-> "python", name |-> "jsu", dialects |-> SortedDialects]]

\* cmd_start refusing every version
cmd_start_strict(r) == Raise("AssertionError")

cmd_start(r) ==
    IF get(r, "version", Null) = Num(1)
    THEN Return(StartResponse)
    ELSE Raise("AssertionError")

-----------------------------------------------------------------------------
(* Runner.cmd_dialect: the outcome and the value left in self.version *)

\* a dict key must be hashable: lists and dicts are not
hashable(j) == j.type \notin {"array", "object"}

\* cmd_dialect taking a dialect that is already the current one for an
\* unknown one
cmd_dialect_flip(r, ver) ==
    IF ~has(r, "dialect")
    THEN [out |-> Raise("AssertionError"), version |-> ver]
    ELSE LET d == r.val["dialect"] IN
         IF ~hashable(d)
         THEN [out |-> Raise("TypeError"), version |-> ver]
         ELSE IF isstr(d) /\ d.val \in DOMAIN VERSIONS
                 /\ VERSIONS[d.val] # ver
         THEN [out |-> Return([ok |-> TRUE]), version |-> VERSIONS[d.val]]
         ELSE [out |-> Return([ok |-> TRUE]), version |-> 0]

cmd_dialect(r, ver) ==
    IF ~has(r, "dialect")
    THEN [out |-> Raise("AssertionError"), version |-> ver]
    ELSE LET d == r.val["dialect"] IN
         IF ~hashable(d)
         THEN [out |-> Raise("TypeError"), version |-> ver]
         ELSE IF isstr(d) /\ d.val \in DOMAIN VERSIONS
         THEN [out |-> Return([ok |-> TRUE]), version |-> VERSIONS[d.val]]
         ELSE [out |-> Return([ok |-> TRUE]), version |-> 0]

-----------------------------------------------------------------------------
(* Runner.cmd_run *)

\* lines 112-118: register and write the entries i.. of one registry.
\* The name is appended to files before the file is opened.
RECURSIVE WriteEntries(_, _, _, _, _)
WriteEntries(entries, i, c, fs, ft) ==
    IF i > Len(entries)
    THEN [ok |-> TRUE, cache |-> c, files |-> fs, exc |-> ""]
    ELSE LET f == fn(entries[i].url)
             fs2 == Append(fs, f)
         IN  IF ft = Fault("open", Len(fs2))
             THEN [ok |-> FALSE, cache |-> c, files |-> fs2, exc |-> "OSError"]
             ELSE IF ft = Fault("dump", Len(fs2))
             THEN [ok |-> FALSE, cache |-> (f :> Truncated) @@ c,
                   files |-> fs2, exc |-> "OSError"]
             ELSE WriteEntries(entries, i + 1,
                               (f :> entries[i].schema) @@ c, fs2, ft)

\* WriteRegistries with the case's registry written before SPECS
WriteRegistries_caseFirst(case, c, ft) ==
    LET reg == get(case, "registry", Null)
        w1 == IF reg.type = "null"
              THEN [ok |-> TRUE, cache |-> c, files |-> << >>, exc |-> ""]
              ELSE IF ~isdict(reg)
              THEN [ok |-> FALSE, cache |-> c, files |-> << >>,
                    exc |-> "AttributeError"]
              ELSE WriteEntries(reg.val, 1, c, << >>, ft)
    IN  IF ~w1.ok THEN w1
        ELSE WriteEntries(SPECS, 1, w1.cache, w1.files, ft)

\* lines 110-118: SPECS first, then the case's registry unless it is None
WriteRegistries(case, c, ft) ==
    LET w1 == WriteEntries(SPECS, 1, c, << >>, ft)
        reg == get(case, "registry", Null)
    IN  IF ~w1.ok \/ reg.type = "null"
        THEN w1
        ELSE IF ~isdict(reg)
        THEN [w1 EXCEPT !.ok = FALSE, !.exc = "AttributeError"]
        ELSE WriteEntries(reg.val, 1, w1.cache, w1.files, ft)

\* ApplyTests collecting the results in reverse order
RECURSIVE ApplyTests_reversed(_, _, _, _)
ApplyTests_reversed(tests, i, verdict, acc) ==
    IF i > Len(tests)
    THEN [ok |-> TRUE, results |-> acc, exc |-> ""]
    ELSE LET test == tests[i] IN
         IF ~isdict(test)
         THEN [ok |-> FALSE, results |-> << >>, exc |-> "TypeError"]
         ELSE IF ~has(test, "instance")
         THEN [ok |-> FALSE, results |-> << >>, exc |-> "KeyError"]
         ELSE IF verdict[test.val["instance"]] = "raise"
         THEN [ok |-> FALSE, results |-> << >>, exc |-> "CheckerError"]
         ELSE ApplyTests_reversed(tests, i + 1, verdict,
                  <<[valid |-> verdict[test.val["instance"]] = "true"]>>
                      \o acc)

\* line 129: the list comprehension over tests, from test i on
RECURSIVE ApplyTests(_, _, _, _)
ApplyTests(tests, i, verdict, acc) ==
    IF i > Len(tests)
    THEN [ok |-> TRUE, results |-> acc, exc |-> ""]
    ELSE LET test == tests[i] IN
         IF ~isdict(test)
         THEN [ok |-> FALSE, results |-> << >>, exc |-> "TypeError"]
         ELSE IF ~has(test, "instance")
         THEN [ok |-> FALSE, results |-> << >>, exc |-> "KeyError"]
         ELSE IF verdict[test.val["instance"]] = "raise"
         THEN [ok |-> FALSE, results |-> << >>, exc |-> "CheckerError"]
         ELSE ApplyTests(tests, i + 1, verdict,
                  Append(acc,
                      [valid |-> verdict[test.val["instance"]] = "true"]))

\* lines 140-141: unlink the registered files from the i-th on; the loop
\* stops at the first unlink that raises
RECURSIVE RemoveFiles(_, _, _, _)
RemoveFiles(fs, i, c, ft) ==
    IF i > Len(fs)
    THEN [ok |-> TRUE, cache |-> c, exc |-> ""]
    ELSE IF fs[i] \notin DOMAIN c
    THEN [ok |-> FALSE, cache |-> c, exc |-> "FileNotFoundError"]
    ELSE IF ft = Fault("unlink", i)
    THEN [ok |-> FALSE, cache |-> c, exc |-> "PermissionError"]
    ELSE RemoveFiles(fs, i + 1,
                     [f \in DOMAIN c \ {fs[i]} |-> c[f]], ft)

Errored(r, exc) ==
    [errored |-> TRUE, seq |-> get(r, "seq", Null),
     context |-> [traceback |-> exc]]

\* Success with an errored flag in every response
Success_flagged(r, results) ==
    [seq |-> get(r, "seq", Null), results |-> results, errored |-> FALSE]

Success(r, results) ==
    [seq |-> get(r, "seq", Null), results |-> results]

\* what a call of cmd_run that stops before its try block leaves behind
Aborted(exc, c) ==
    [out |-> Raise(exc), cache |-> c, call |-> NoCall,
     checker |-> NoChecker, files |-> << >>]

\* lines 120-129: compile the schema and apply the checker to the tests,
\* once the registries are written (w)
Tried(case, e, w) ==
    IF w.ok /\ has(case, "schema") /\ e.compile = "ok"
    THEN ApplyTests(case.val["tests"].val, 1, e.verdict, << >>)
    ELSE [ok |-> FALSE, results |-> << >>,
          exc |-> IF ~w.ok THEN w.exc
                  ELSE IF ~has(case, "schema") THEN "KeyError"
                  ELSE "CompileError"]

\* lines 131-146: the response of the try block (t) or of its handler,
\* unless the finally clause (u) raised
Finished(r, e, ver, w, t, u) ==
    [out |-> IF ~u.ok THEN Raise(u.exc)
             ELSE IF t.ok THEN Return(Success(r, t.results))
             ELSE Return(Errored(r, t.exc)),
     cache |-> u.cache,
     call |-> IF w.ok /\ has(r.val["case"], "schema")
              THEN [made |-> TRUE, schema |-> r.val["case"].val["schema"],
                    description |-> get(r.val["case"], "description", Null),
                    cache |-> w.cache, version |-> ver]
              ELSE NoCall,
     checker |-> IF w.ok /\ has(r.val["case"], "schema") /\ e.compile = "ok"
                 THEN e.verdict ELSE NoChecker,
     files |-> w.files]

\* lines 138-141 after lines 120-136
Written(r, e, ver, w) ==
    Finished(r, e, ver, w, Tried(r.val["case"], e, w),
             RemoveFiles(w.files, 1, w.cache, e.fault))

\* lines 105-146: the try block, its handler and its finally clause
RunCase(r, e, ver, c) ==
    Written(r, e, ver, WriteRegistries(r.val["case"], c, e.fault))

cmd_run(r, e, ver, c) ==
    IF ~has(r, "case") THEN Aborted("KeyError", c)
    ELSE IF ~isdict(r.val["case"]) THEN Aborted("AssertionError", c)
    ELSE LET case == r.val["case"]
             description == get(case, "description", Null) IN
         IF ~(description.type = "null" \/ isstr(description))
         THEN Aborted("AssertionError", c)
         ELSE IF ~has(case, "tests") THEN Aborted("KeyError", c)
         ELSE IF ~islist(case.val["tests"]) THEN Aborted("AssertionError", c)
         ELSE RunCase(r, e, ver, c)

-----------------------------------------------------------------------------
(* Runner.cmd_stop and Runner.process *)

\* cmd_stop answering like any other command
cmd_stop_answers(r) == Return([ok |-> TRUE])

cmd_stop(r) == Exit(0)

\* the outcome of a handler that touches neither the session nor the cache
Plain(o, ver, c) ==
    [out |-> o, version |-> ver, cache |-> c, call |-> NoCall,
     checker |-> NoChecker, files |-> << >>]

\* the outcome of cmd_run (x), which leaves the session as it is
Ran(x, ver) ==
    [out |-> x.out, version |-> ver, cache |-> x.cache,
     call |-> x.call, checker |-> x.checker, files |-> x.files]

\* the outcome of cmd_dialect (d), which leaves the cache as it is
Set(d, c) == Plain(d.out, d.version, c)

\* process answering an unknown command with an error response
process_lenient(r, e, ver, c) ==
    LET cmd == get(r, "cmd", Str("run")) IN
    IF cmd = Str("start") THEN Plain(cmd_start(r), ver, c)
    ELSE IF cmd = Str("dialect")
    THEN Set(cmd_dialect(r, ver), c)
    ELSE IF cmd = Str("run")
    THEN Ran(cmd_run(r, e, ver, c), ver)
    ELSE IF cmd = Str("stop") THEN Plain(cmd_stop(r), ver, c)
    ELSE Plain(Return(Errored(r, "RunnerError")), ver, c)

\* process with a start command that puts the session back to its
\* initial dialect
process_resets(r, e, ver, c) ==
    LET cmd == get(r, "cmd", Str("run")) IN
    IF cmd = Str("start") THEN Plain(cmd_start(r), None, c)
    ELSE IF cmd = Str("dialect")
    THEN Set(cmd_dialect(r, ver), c)
    ELSE IF cmd = Str("run")
    THEN Ran(cmd_run(r, e, ver, c), ver)
    ELSE IF cmd = Str("stop") THEN Plain(cmd_stop(r), ver, c)
    ELSE Plain(Raise("RunnerError"), ver, c)

\* process with a run command that leaves the session without dialect
process_run_forgets(r, e, ver, c) ==
    LET cmd == get(r, "cmd", Str("run")) IN
    IF cmd = Str("start") THEN Plain(cmd_start(r), ver, c)
    ELSE IF cmd = Str("dialect")
    THEN Set(cmd_dialect(r, ver), c)
    ELSE IF cmd = Str("run")
    THEN Ran(cmd_run(r, e, ver, c), None)
    ELSE IF cmd = Str("stop") THEN Plain(cmd_stop(r), ver, c)
    ELSE Plain(Raise("RunnerError"), ver, c)

process(r, e, ver, c) ==
    LET cmd == get(r, "cmd", Str("run")) IN
    IF cmd = Str("start") THEN Plain(cmd_start(r), ver, c)
    ELSE IF cmd = Str("dialect")
    THEN Set(cmd_dialect(r, ver), c)
    ELSE IF cmd = Str("run")
    THEN Ran(cmd_run(r, e, ver, c), ver)
    ELSE IF cmd = Str("stop") THEN Plain(cmd_stop(r), ver, c)
    ELSE Plain(Raise("RunnerError"), ver, c)

\* lines 175-177: parse the line, check it is an object, process it
handle(l, e, ver, c) ==
    IF l = NotJson THEN Plain(Raise("JSONDecodeError"), ver, c)
    ELSE IF ~isdict(l) THEN Plain(Raise("AssertionError"), ver, c)
    ELSE process(l, e, ver, c)

-----------------------------------------------------------------------------
(* Input lines and environments *)

RECURSIVE SeqsUpTo(_, _)
\* the sequences over S of length at most n
SeqsUpTo(S, n) ==
    IF n = 0 THEN {<< >>}
    ELSE LET shorter == SeqsUpTo(S, n - 1) IN
         shorter \cup {Append(q, x) : q \in shorter, x \in S}

\* a dict has each key once
DistinctURLs(q) == \A i, j \in 1..Len(q) : q[i].url = q[j].url => i = j

Test(i) == Obj([instance |-> i])
\* a test without instance
BadTest == Obj(<< >>)

TestLists == SeqsUpTo({Test(i) : i \in Instances} \cup {BadTest}, MaxTests)

\* the case's registry: a dict, kept as the ordered list of its items
RegistryURLs == {SpecURLs[i] : i \in 1..Len(SpecURLs)} \cup {ExtraURL}
RegistryItems == {[url |-> u, schema |-> Obj([title |-> Str("from the case")])] :
                     u \in RegistryURLs}
Registries == {Obj(q) : q \in {x \in SeqsUpTo(RegistryItems, MaxRegistry) :
                                   DistinctURLs(x)}}

ASchema == Obj([type |-> Str("integer")])
Seq7 == Num(7)

Verdicts == [Instances -> {"true", "false", "raise"}]
AllValid == [i \in Instances |-> "true"]
Env(c, v, f) == [compile |-> c, verdict |-> v, fault |-> f]
Calm == Env("ok", AllValid, NoFault)

\* the file operations of one request: SPECS and the registry are written
MaxFiles == Len(SpecURLs) + MaxRegistry
Faults == {NoFault} \cup
          {Fault(o, k) : o \in {"open", "dump", "unlink"}, k \in 1..MaxFiles}

RunReq(fields) == Obj(fields @@ [cmd |-> Str("run")])

\* the instances the tests of ts carry
Tested(ts) == {ts[i].val["instance"] :
                  i \in {j \in 1..Len(ts) : has(ts[j], "instance")}}

\* line 129: the engine is asked about the instances of the tests only, so
\* one verdict function stands for all that agree on them
VerdictsOn(ts) == {v \in Verdicts :
                      \A i \in Instances \ Tested(ts) : v[i] = "true"}

\* run requests that vary the tests and the engine, with a calm file system
TestRuns ==
    UNION {
        {[l |-> RunReq(s @@ [case |-> Obj([schema |-> ASchema, tests |-> Arr(ts)])]),
          e |-> Env("ok", v, NoFault)] :
            s \in {<< >>, [seq |-> Seq7]}, v \in VerdictsOn(ts)} :
        ts \in TestLists}
    \cup
    {[l |-> RunReq(s @@ [case |-> Obj([schema |-> ASchema, tests |-> Arr(ts)])]),
      e |-> Env("raise", AllValid, NoFault)] :
        s \in {<< >>, [seq |-> Seq7]}, ts \in TestLists}

\* run requests that vary the registry, the file system and compilation
CacheRuns ==
    {[l |-> RunReq([seq |-> Seq7,
                    case |-> Obj([schema |-> ASchema, registry |-> g,
                                  tests |-> Arr(<<Test(Num(1))>>)])]),
      e |-> Env(c, AllValid, f)] :
        g \in Registries \cup {Null, Str("no registry")},
        c \in {"ok", "raise"}, f \in Faults}

\* run requests of the wrong shape, and one without cmd
ShapeRuns ==
    {[l |-> l, e |-> Calm] : l \in
        {RunReq([seq |-> Seq7]),
         RunReq([seq |-> Seq7, case |-> Arr(<< >>)]),
         RunReq([seq |-> Seq7,
                 case |-> Obj([description |-> Num(3), schema |-> ASchema,
                               tests |-> Arr(<< >>)])]),
         RunReq([seq |-> Seq7, case |-> Obj([schema |-> ASchema])]),
         RunReq([seq |-> Seq7,
                 case |-> Obj([schema |-> ASchema, tests |-> Obj(<< >>)])]),
         RunReq([seq |-> Seq7, case |-> Obj([tests |-> Arr(<< >>)])]),
         RunReq([seq |-> Seq7,
                 case |-> Obj([description |-> Str("a case"),
                               schema |-> ASchema,
                               tests |-> Arr(<<Num(0)>>)])]),
         Obj([seq |-> Seq7,
              case |-> Obj([schema |-> ASchema,
                            tests |-> Arr(<<Test(Num(1))>>)])])}}

UnknownDialect == "http://json-schema.org/draft-99/schema#"
DialectURIs == DOMAIN VERSIONS \cup {UnknownDialect}

OtherLines ==
    {[l |-> l, e |-> Calm] : l \in
        {NotJson, Arr(<< >>), Num(1),
         Obj([cmd |-> Str("start"), version |-> Num(1)]),
         Obj([cmd |-> Str("start"), version |-> Num(2)]),
         Obj([cmd |-> Str("start")]),
         Obj([cmd |-> Str("dialect")]),
         Obj([cmd |-> Str("dialect"), dialect |-> Arr(<< >>)]),
         Obj([cmd |-> Str("dialect"), dialect |-> Num(7)]),
         Obj([cmd |-> Str("stop")]),
         Obj([cmd |-> Str("restart")]),
         Obj([cmd |-> Num(0)])}
        \cup {Obj([cmd |-> Str("dialect"), dialect |-> Str(u)]) :
                 u \in DialectURIs}}

\* every input: a line of sys.stdin and the environment it is handled in
Inputs == TestRuns \cup CacheRuns \cup ShapeRuns \cup OtherLines

-----------------------------------------------------------------------------
(* The process *)

NoReq == [type |-> "none"]
NoRes == [none |-> TRUE]

\* no line is being sent twice
NoPrev == [stage |-> "none", l |-> NoReq, e |-> Calm, res |-> NoRes,
           version |-> None, call |-> NoCall]

Init ==
    /\ version = None
    /\ line = 0
    /\ pc = "read"
    /\ status = "running"
    /\ req = NoReq
    /\ res = NoRes
    /\ stdout = << >>
    /\ stderr = << >>
    /\ cache = << >>
    /\ nread = 0
    /\ call = NoCall
    /\ checker = NoChecker
    /\ files = << >>
    /\ fault = NoFault
    /\ lastdialect = Null
    /\ lastset = None
    /\ exitcode = None
    /\ prev = NoPrev

\* the request l is an object whose command is c
iscmd(l, c) == isdict(l) /\ get(l, "cmd", Str("run")) = Str(c)

\* the counter left as it is when a line is read
counted_not(n) == n

\* line 173: self.line += 1
counted(n) == n + 1

\* lines 173-181 with h the outcome of lines 175-177
Handled(l, e, h) ==
    /\ nread' = nread + 1
    /\ line' = counted(line)
    /\ req' = l
    /\ version' = h.version
    /\ cache' = h.cache
    /\ call' = h.call
    /\ checker' = h.checker
    /\ files' = h.files
    /\ fault' = e.fault
    /\ IF iscmd(l, "dialect") /\ h.out.kind = "return"
       THEN /\ lastdialect' = l.val["dialect"]
            /\ lastset' = cmd_dialect(l, version).version
       ELSE UNCHANGED <<lastdialect, lastset>>
    /\ IF h.out.kind = "return"
       THEN /\ res' = h.out.res
            /\ pc' = "write"
            /\ UNCHANGED <<status, exitcode, stderr>>
       ELSE IF h.out.kind = "raise"
       THEN /\ stderr' = Append(stderr, [line |-> line', exc |-> h.out.exc])
            /\ status' = "crashed"
            /\ exitcode' = 1
            /\ UNCHANGED <<res, pc>>
       ELSE /\ status' = "exited"
            /\ exitcode' = h.out.code
            /\ UNCHANGED <<res, pc, stderr>>
    /\ UNCHANGED stdout

\* lines 172-181: take the next line from sys.stdin, count it, parse and
\* process it; an exception is reported on sys.stderr and raised again,
\* sys.exit leaves the loop
Handling(l, e) ==
    /\ status = "running"
    /\ pc = "read"
    /\ nread < MaxLines
    /\ Handled(l, e, handle(l, e, version, cache))

\* a line of a session in which no line is being sent twice
ReadLine(l, e) ==
    /\ prev.stage = "none"
    /\ Handling(l, e)
    /\ UNCHANGED prev

\* the orchestrator sends a run or dialect command that it is going to
\* send again as the next line
ReadFirst(l, e) ==
    /\ prev.stage = "none"
    /\ isdict(l)
    /\ get(l, "cmd", Str("run")) \in {Str("run"), Str("dialect")}
    /\ Handling(l, e)
    /\ prev' = [NoPrev EXCEPT !.stage = "first", !.l = l, !.e = e]

\* the environments of the model whose file system behaves as in e
SameFiles(e) == {i.e : i \in {j \in Inputs : j.e.fault = e.fault}}

\* the orchestrator sends the previous line again. The file system behaves
\* as it did for the first one, and so does the engine when it is called
\* with the arguments of the first call (the engine is deterministic).
ReadAgain ==
    /\ prev.stage = "answered"
    /\ IF handle(prev.l, prev.e, version, cache).call = prev.call
       THEN Handling(prev.l, prev.e)
       ELSE \E e2 \in SameFiles(prev.e) : Handling(prev.l, e2)
    /\ prev' = [prev EXCEPT !.stage = "again"]

\* what the write of a response leaves in prev: the first handling of a
\* line sent twice is kept, the second one ends the episode
Noted ==
    IF prev.stage = "first"
    THEN [prev EXCEPT !.stage = "answered", !.res = res,
                      !.version = version, !.call = call]
    ELSE IF prev.stage = "again" THEN NoPrev
    ELSE prev

\* WriteLine with the response dropped: the loop goes back to reading
\* without writing the line
WriteLine_lost ==
    /\ status = "running"
    /\ pc = "write"
    /\ pc' = "read"
    /\ req' = NoReq
    /\ res' = NoRes
    /\ call' = NoCall
    /\ checker' = NoChecker
    /\ files' = << >>
    /\ fault' = NoFault
    /\ prev' = Noted
    /\ UNCHANGED <<version, line, status, exitcode, stdout, stderr, cache,
                   nread, lastdialect, lastset>>

\* lines 182-184: write the response and flush; the locals of the
\* iteration are dead from here on
WriteLine ==
    /\ status = "running"
    /\ pc = "write"
    /\ stdout' = Append(stdout, line)
    /\ pc' = "read"
    /\ req' = NoReq
    /\ res' = NoRes
    /\ call' = NoCall
    /\ checker' = NoChecker
    /\ files' = << >>
    /\ fault' = NoFault
    /\ prev' = Noted
    /\ UNCHANGED <<version, line, status, exitcode, stderr, cache, nread,
                   lastdialect, lastset>>

\* line 172: sys.stdin is at its end, run returns and the process ends
EndOfInput ==
    /\ status = "running"
    /\ pc = "read"
    /\ status' = "finished"
    /\ exitcode' = 0
    /\ UNCHANGED <<version, line, pc, req, res, stdout, stderr, cache,
                   nread, call, checker, files, fault, lastdialect, lastset,
                   prev>>

Next ==
    \/ \E i \in Inputs : ReadLine(i.l, i.e)
    \/ WriteLine
    \/ EndOfInput

Spec == Init /\ [][Next]_vars

\* the sessions in which the orchestrator may send a run or dialect
\* command twice in a row
ReadOnce ==
    /\ pc = "read"
    /\ \E i \in Inputs : ReadLine(i.l, i.e)

ReadTwice ==
    /\ pc = "read"
    /\ \E i \in Inputs : ReadFirst(i.l, i.e)

NextRepeat ==
    \/ ReadOnce
    \/ ReadTwice
    \/ ReadAgain
    \/ WriteLine
    \/ EndOfInput

SpecRepeat == Init /\ [][NextRepeat]_vars

-----------------------------------------------------------------------------
(* Properties *)

\* the i-th line of stdout answers the i-th input line
InOrder == \A i \in 1..Len(stdout) : stdout[i] = i

\* every line read so far has been answered
AllAnswered == Len(stdout) = nread

\* the last line read is still without a response, the earlier ones have theirs
LastUnanswered == Len(stdout) = nread - 1

\* C1, as stated: one output line per input line, in the order of the input,
\* no line is read before the response to the previous one is written, and
\* the only line that is left without a response is a stop command, which
\* ends the process.
C1_OnlyStopIsSilent ==
    /\ InOrder
    /\ (status = "running" /\ pc = "read") => AllAnswered
    /\ status = "finished" => AllAnswered
    /\ (status = "running" /\ pc = "write") => LastUnanswered
    /\ status \notin {"running", "finished"} =>
          LastUnanswered /\ status = "exited" /\ iscmd(req, "stop")

\* C1, amended: one output line per input line, in the order of the input,
\* no line is read before the response to the previous one is written; the
\* lines left without a response are a stop command and a line whose
\* handling raises an exception, and each of them ends the process.
C1_Synchronous ==
    /\ InOrder
    /\ (status = "running" /\ pc = "read") => AllAnswered
    /\ status = "finished" => AllAnswered
    /\ (status = "running" /\ pc = "write") => LastUnanswered
    /\ status \notin {"running", "finished"} =>
          /\ LastUnanswered
          /\ \/ status = "exited" /\ iscmd(req, "stop")
             \/ status = "crashed" /\ stderr # << >>

\* two lines were answered in order and the third one ended the process
C1_Witness ==
    /\ stdout = <<1, 2>>
    /\ nread = 3
    /\ status = "crashed"

\* the request has been answered: its response is about to be written
Answered == status = "running" /\ pc = "write"

\* the handling of the request raised: message on stderr citing the line,
\* no response, nonzero exit status
Crashed ==
    /\ status = "crashed"
    /\ exitcode = 1
    /\ LastUnanswered
    /\ Len(stderr) = 1
    /\ stderr[1].line = nread

\* C2: a run request never crashes the process: whatever fails while it is
\* handled, the request is answered (with an errored response when
\* something failed) and the process goes on.
C2_RunNeverCrashes ==
    iscmd(req, "run") => Answered

\* C3: a dialect command with a dialect URI is answered {ok: true} when the
\* URI is one of the six of the dialect table and {ok: false} when it is not.
C3_OkIffKnown ==
    (iscmd(req, "dialect") /\ has(req, "dialect")
        /\ isstr(req.val["dialect"])) =>
        /\ Answered
        /\ res = [ok |-> req.val["dialect"].val \in DOMAIN VERSIONS]

\* C4: when the most recent dialect command named draft 2019-09 or draft
\* 2020-12 (table ordinals 8 and 9), the engine is called with the
\* unspecified dialect (None), not with the ordinal.
C4_NewestUnspecified ==
    (call.made /\ isstr(lastdialect)
        /\ lastdialect.val \in {D2019, D2020}) =>
        call.version = None

\* C5: when a run command has finished (answered or not), none of the cache
\* files it registered is left in the cache directory. Stated for the runs
\* in which the file system refuses no removal.
C5_CacheRemoved ==
    (iscmd(req, "run") /\ fault.op # "unlink") =>
        \A i \in 1..Len(files) : files[i] \notin DOMAIN cache

\* the request is an object whose cmd is none of the four commands
isunknown(l) ==
    /\ isdict(l)
    /\ get(l, "cmd", Str("run")) \notin
           {Str("start"), Str("dialect"), Str("run"), Str("stop")}

\* C6, as stated: a request with an unrecognized cmd is answered with an
\* error response and the process keeps running.
C6_UnknownAnswered ==
    isunknown(req) => Answered /\ "errored" \in DOMAIN res

\* C6, amended: a request with an unrecognized cmd gets no response: the
\* process reports the line on stderr and ends with a nonzero exit status.
C6_UnknownCrashes ==
    isunknown(req) => Crashed /\ stderr[1].exc = "RunnerError"

\* the second line carried an unknown command
C6_Witness ==
    isunknown(req) /\ nread = 2 /\ stdout = <<1>> /\ status = "crashed"

\* the line is not JSON, or JSON that is not an object
ismalformed(l) == l # NoReq /\ ~isdict(l)

\* C7, as stated: a malformed line is answered with an error response, and
\* the line counter is the number of lines read.
C7_MalformedAnswered ==
    /\ line = nread
    /\ ismalformed(req) => Answered

\* C7, amended: a malformed line gets no response: the message on stderr
\* cites its 1-based number and the process ends with a nonzero exit
\* status; the line counter is always the number of lines read.
C7_MalformedCited ==
    /\ line = nread
    /\ ismalformed(req) => Crashed /\ stderr[1].line = line

\* the third line was malformed
C7_Witness ==
    ismalformed(req) /\ nread = 3 /\ stderr # << >> /\ stderr[1].line = 3

\* C8, as stated: the exit status is nonzero only for a line that is not a
\* JSON object; a request that is an object is answered, or is a stop
\* command that exits with status 0.
C8_OnlyMalformedCrashes ==
    /\ exitcode \notin {None, 0} => ismalformed(req)
    /\ isdict(req) =>
          \/ Answered
          \/ iscmd(req, "stop") /\ status = "exited" /\ exitcode = 0

\* the case of a run request lacks what cmd_run checks before its try block
BadShape(l) ==
    \/ ~has(l, "case")
    \/ ~isdict(l.val["case"])
    \/ get(l.val["case"], "description", Null).type \notin {"null", "string"}
    \/ ~has(l.val["case"], "tests")
    \/ ~islist(l.val["case"].val["tests"])

\* C8, amended: the exit status is nonzero only when the handling of a line
\* raised: the line is not a JSON object, or it is a start command whose
\* version is not 1, a dialect command without a hashable dialect, an
\* unknown command, a run command whose case, description or tests has the
\* wrong shape, or a run command whose cleanup raised. Every other request
\* is answered, or is a stop command that exits with status 0.
C8_CrashOnlyOnRaise ==
    /\ exitcode \notin {None, 0} => Crashed
    /\ ismalformed(req) => Crashed
    /\ isunknown(req) => Crashed
    /\ iscmd(req, "stop") => status = "exited" /\ exitcode = 0
    /\ iscmd(req, "start") =>
          IF get(req, "version", Null) = Num(1) THEN Answered ELSE Crashed
    /\ iscmd(req, "dialect") =>
          IF has(req, "dialect") /\ hashable(req.val["dialect"])
          THEN Answered ELSE Crashed
    /\ iscmd(req, "run") =>
          IF BadShape(req) THEN Crashed
          ELSE \/ Answered
               \/ Crashed /\ stderr[1].exc \in
                                {"FileNotFoundError", "PermissionError"}

\* a start command with version 2 on the second line ended the process
C8_Witness ==
    /\ iscmd(req, "start")
    /\ get(req, "version", Null) = Num(2)
    /\ nread = 2
    /\ exitcode = 1

\* C9: in a success response to a run request, results has one element per
\* test of the case, and the i-th element is {valid: v} with v the verdict
\* of the checker on the instance of the i-th test.
C9_ResultsMatchTests ==
    (iscmd(req, "run") /\ Answered /\ "results" \in DOMAIN res) =>
        LET tests == req.val["case"].val["tests"].val IN
        /\ Len(res.results) = Len(tests)
        /\ \A i \in 1..Len(tests) :
              res.results[i] =
                  [valid |-> checker[tests[i].val["instance"]] = "true"]

\* a success response with two results that differ
C9_Witness ==
    /\ iscmd(req, "run")
    /\ Answered
    /\ "results" \in DOMAIN res
    /\ res.results = <<[valid |-> TRUE], [valid |-> FALSE]>>

\* C10: the dialect handed to the engine by a run command is what the most
\* recent dialect command stored, or None when there has been none.
C10_DialectPersists ==
    call.made => call.version = lastset

\* the third line is a run command that hands over the dialect set before
C10_Witness ==
    /\ call.made
    /\ nread = 3
    /\ lastset = 7
    /\ call.version = 7

\* C11: a stop command writes nothing to the output and ends the process
\* with exit status 0; once the process has ended on a stop command, no
\* step reads a line or writes a line.
C11_StopEndsSilently ==
    [][/\ status # "exited"
       /\ iscmd(req', "stop") =>
             /\ status' = "exited"
             /\ exitcode' = 0
             /\ stdout' = stdout
             /\ Len(stdout') = nread' - 1]_vars

\* a stop command on the third line, after two answered lines
C11_Witness ==
    /\ iscmd(req, "stop")
    /\ nread = 3
    /\ stdout = <<1, 2>>
    /\ status = "exited"
    /\ exitcode = 0

\* C12: an error response carries the seq of its request when the request
\* has one, and otherwise a fallback that is not null.
C12_ErrorCarriesId ==
    (Answered /\ "errored" \in DOMAIN res) =>
        /\ "seq" \in DOMAIN res
        /\ IF has(req, "seq") THEN res.seq = req.val["seq"]
           ELSE res.seq # Null

\* the tests of the case of a run request of the right shape
TestsOf(l) == l.val["case"].val["tests"].val

\* the run request has the right shape and its case has no test
EmptyRun(l) == iscmd(l, "run") /\ ~BadShape(l) /\ TestsOf(l) = << >>

\* C15, as stated: a run request whose case has an empty tests list is
\* answered with a success response, results the empty list, no errored flag.
C15_EmptyAlwaysSucceeds ==
    EmptyRun(req) =>
        /\ Answered
        /\ res = [seq |-> get(req, "seq", Null), results |-> << >>]

\* C15, amended: a run request whose case has an empty tests list, whose
\* registries were written and whose schema was compiled is answered with a
\* success response, results the empty list, no errored flag, unless the
\* cleanup raises (then the process ends without a response).
C15_EmptySucceeds ==
    (EmptyRun(req) /\ checker # NoChecker) =>
        \/ /\ Answered
           /\ res = [seq |-> get(req, "seq", Null), results |-> << >>]
        \/ /\ Crashed
           /\ stderr[1].exc \in {"FileNotFoundError", "PermissionError"}

\* a run request without tests answered with the empty list
C15_Witness ==
    /\ EmptyRun(req)
    /\ Answered
    /\ res = [seq |-> get(req, "seq", Null), results |-> << >>]

\* C16: a step that handles a start command or a run command leaves the
\* session dialect as it was, whatever the outcome of the command.
C16_OnlyDialectSets ==
    [][(iscmd(req', "start") \/ iscmd(req', "run")) =>
          version' = version]_vars

\* a run command answered errored with the dialect set before still in place
C16_Witness ==
    /\ iscmd(req, "run")
    /\ Answered
    /\ "errored" \in DOMAIN res
    /\ version = 7
    /\ lastset = 7

\* something failed in the try block of the run request: the registries
\* were not all written, the schema was not compiled, or a test could not
\* be checked
RunFailed(l) ==
    /\ iscmd(l, "run")
    /\ ~BadShape(l)
    /\ \/ checker = NoChecker
       \/ \E i \in 1..Len(TestsOf(l)) :
             \/ ~isdict(TestsOf(l)[i])
             \/ ~has(TestsOf(l)[i], "instance")
             \/ checker[TestsOf(l)[i].val["instance"]] = "raise"

\* C17: when caching, compilation or the check of any instance fails, the
\* run request is answered with the errored envelope, without results.
C17_NoPartialResults ==
    RunFailed(req) =>
        /\ Answered
        /\ "errored" \in DOMAIN res
        /\ "results" \notin DOMAIN res

\* the registry of the run request is a dict that holds a URL of SPECS
SharesURL(l) ==
    /\ iscmd(l, "run")
    /\ ~BadShape(l)
    /\ isdict(get(l.val["case"], "registry", Null))
    /\ \E i \in 1..Len(l.val["case"].val["registry"].val) :
          \E j \in 1..Len(SPECS) :
             l.val["case"].val["registry"].val[i].url = SPECS[j].url

\* C18: a run request whose registry holds a URL of the specification
\* registry is answered as any other run request, and no cache file is left
\* for a URL of the specification registry. Stated for the runs in which no
\* file operation is refused by the file system.
C18_SameURLIsSafe ==
    (SharesURL(req) /\ fault = NoFault) =>
        /\ Answered
        /\ \A j \in 1..Len(SPECS) : fn(SPECS[j].url) \notin DOMAIN cache

\* writing the cache entry number fault.at failed while handling the request
WriteFailed ==
    /\ iscmd(req, "run")
    /\ fault.op \in {"open", "dump"}
    /\ Len(files) = fault.at

\* C19: when the write of one cache entry fails, the run request is
\* answered with the errored response and no file registered by the run is
\* left in the cache directory.
C19_FailedWriteAnswered ==
    WriteFailed =>
        /\ Answered
        /\ "errored" \in DOMAIN res
        /\ \A i \in 1..Len(files) : files[i] \notin DOMAIN cache

\* C20: when the engine is called, the cache holds a file for every URL of
\* SPECS and of the case's registry; the file of a URL of the case's registry
\* holds the case's document, also when the URL is in SPECS, and the file
\* of any other URL of SPECS holds the specification.
C20_CaseOverridesSpecs ==
    (iscmd(req, "run") /\ call.made) =>
        LET reg == get(req.val["case"], "registry", Null)
            items == IF isdict(reg) THEN reg.val ELSE << >>
        IN  /\ \A i \in 1..Len(items) :
                  /\ fn(items[i].url) \in DOMAIN call.cache
                  /\ call.cache[fn(items[i].url)] = items[i].schema
            /\ \A j \in 1..Len(SPECS) :
                  /\ fn(SPECS[j].url) \in DOMAIN call.cache
                  /\ (\A i \in 1..Len(items) : items[i].url # SPECS[j].url)
                        => call.cache[fn(SPECS[j].url)] = SPECS[j].schema

\* the engine is called with the case's document in the file of a URL of SPECS
C20_Witness ==
    /\ SharesURL(req)
    /\ call.made
    /\ call.cache[fn(SPECS[1].url)] # SPECS[1].schema
    /\ fn(SPECS[2].url) \in DOMAIN call.cache

\* C13: when a run request is sent twice in a row and the first one is
\* answered, the second one is answered with the same response (the engine
\* is deterministic and the file system behaves the same way both times).
C13_SameRunSameResponse ==
    (prev.stage = "again" /\ iscmd(req, "run")) =>
        /\ Answered
        /\ res = prev.res
        /\ call = prev.call

\* a run request answered twice with the same verdicts, under a dialect
\* set before
C13_Witness ==
    /\ prev.stage = "again"
    /\ iscmd(req, "run")
    /\ Answered
    /\ "results" \in DOMAIN res
    /\ res.results # << >>
    /\ res = prev.res
    /\ version = 7

\* C14: when a dialect command is sent twice in a row, the second answer is
\* the first one and the session dialect after the second command is the
\* one after the first.
C14_SameDialectSameAnswer ==
    (prev.stage = "again" /\ iscmd(req, "dialect")) =>
        /\ Answered
        /\ res = prev.res
        /\ version = prev.version

\* draft 2020-12 set twice in a row
C14_Witness ==
    /\ prev.stage = "again"
    /\ iscmd(req, "dialect")
    /\ Answered
    /\ res = [ok |-> TRUE]
    /\ version = 9
    /\ prev.version = 9

====
